---- MODULE Spec2Model ----
(***************************************************************************)
(* NewsRegistry and PublisherRegistry (Solidity ^0.8.20) as one state      *)
(* machine over a serialized ledger.  Every transaction is one atomic      *)
(* step: it either commits all of its writes or reverts with a reason and  *)
(* writes nothing.  The receipt of the most recent transaction (revert     *)
(* reason and emitted events) is kept in the variable last.                *)
(***************************************************************************)
EXTENDS Integers, Sequences, FiniteSets, TLC

\* ------------------------------------------------------------------ bounds
NumAddr == 4          \* non-zero account addresses 1..NumAddr; 0 is address(0)
NumSenders == 2       \* accounts 1..NumSenders send the non-vote transactions
NumPublishers == 1    \* addresses 0..NumPublishers are passed as _publisher
NumHashes == 1        \* content fingerprints 1..NumHashes
MaxBlocks == 4        \* registry transactions recorded in the ledger of SpecAdmin
NumClients == 3       \* frontend sessions 1..NumClients, session c signs as account c
MaxTime == 2          \* block.timestamp ranges over 1..MaxTime
MaxPeriod == 1        \* small votingPeriod arguments 0..MaxPeriod
MaxMinVotes == 2      \* minVotes arguments 0..MaxMinVotes
UintBits == 8         \* width standing in for uint256
Horizon == 62         \* last block.timestamp of the deployed configuration

UintMax == 2^UintBits - 1

Address == 0..NumAddr
Callers == 1..NumAddr
Senders == 1..NumSenders
PubArgs == 0..NumPublishers
Hashes == 1..NumHashes
Clients == 1..NumClients
Uris == {"", "ipfs"}
PeriodArgs == (0..MaxPeriod) \cup {UintMax}
MinVotesArgs == 0..MaxMinVotes

\* ------------------------------------------------------------------- state
VARIABLES
    pubOwner,       \* PublisherRegistry: Ownable owner
    isTrusted,      \* PublisherRegistry: mapping(address => bool)
    newsOwner,      \* NewsRegistry: Ownable owner
    votingPeriod,   \* NewsRegistry: uint256 votingPeriod (seconds)
    minVotes,       \* NewsRegistry: uint256 minVotes
    articles,       \* NewsRegistry: mapping(bytes32 => Article)
    hasVoted,       \* NewsRegistry: mapping(bytes32 => mapping(address => bool))
    now,            \* block.timestamp of the block being built
    last,           \* receipt of the latest transaction
    clients,        \* frontend sessions: position in submit() / vote()
    role,           \* App: useState("guest"), guest | publisher | owner
    connectedAddress, \* App: useState(null), 0 for null
    roleCheck,      \* App: the attemptSetRole call in progress, if any
    ledger,         \* the mined PublisherRegistry transactions the admin page reads
    adminLoad       \* PublisherAdmin: the load() in progress and its trustedList

pubState == <<pubOwner, isTrusted>>
newsState == <<newsOwner, votingPeriod, minVotes, articles, hasVoted>>
chain == <<pubOwner, isTrusted, newsOwner, votingPeriod, minVotes, articles, hasVoted>>
appState == <<role, connectedAddress, roleCheck>>
adminState == <<ledger, adminLoad>>
frontend == <<clients, role, connectedAddress, roleCheck, ledger, adminLoad>>
vars == <<pubOwner, isTrusted, newsOwner, votingPeriod, minVotes, articles, hasVoted, now, last,
          clients, role, connectedAddress, roleCheck, ledger, adminLoad>>

\* enum Status { UnderReview, VerifiedTrue, MarkedFake, Disputed }
Status == {"UnderReview", "VerifiedTrue", "MarkedFake", "Disputed"}

\* The zero-initialised storage slot of struct Article.
Article ==
    [contentHash |-> 0, uri |-> "", publisher |-> 0, submitter |-> 0,
     createdAt |-> 0, status |-> "UnderReview", yesVotes |-> 0, noVotes |-> 0,
     finalized |-> FALSE]

\* ------------------------------------------------------------------ events
Ev(name, hash, addr, data) == [name |-> name, hash |-> hash, addr |-> addr, data |-> data]
BoolStr(b) == IF b THEN "true" ELSE "false"

PublisherAdded(p) == Ev("PublisherAdded", 0, p, "")
PublisherRemoved(p) == Ev("PublisherRemoved", 0, p, "")
Submitted(h, submitter, uri) == Ev("Submitted", h, submitter, uri)
\* variant: the auto-verify branch announces itself as a plain submission
PublisherAutoVerifiedAsSubmitted(h) == Ev("Submitted", h, 0, "")
PublisherAutoVerified(h) == Ev("PublisherAutoVerified", h, 0, "")
Voted(h, voter, support) == Ev("Voted", h, voter, BoolStr(support))
\* variant: a finalization is announced as one more vote
FinalizedAsVoted(h, finalStatus) == Ev("Voted", h, 0, finalStatus)
Finalized(h, finalStatus) == Ev("Finalized", h, 0, finalStatus)

\* Receipt of a transaction: the function called, the revert reason ("" when
\* it committed) and the events it emitted (none when it reverted).
Receipt(op, err, logs) == [op |-> op, err |-> err, logs |-> logs]

Commit(op, logs) == last' = Receipt(op, "", logs)
Revert(op, err) == last' = Receipt(op, err, <<>>) /\ UNCHANGED chain

\* --------------------------------------------------------------- Ownable
\* modifier onlyOwner: reverts unless msg.sender is the stored owner.
onlyOwner(owner, sender) == IF owner = sender THEN "" ELSE "OwnableUnauthorizedAccount"

\* ------------------------------------------------------ PublisherRegistry
\* variant: removing a publisher clears the whole map
trustedAfterRemoveClears(t, p) == [a \in DOMAIN t |-> FALSE]

\* the trusted map after the write of addPublisher
trustedAfterAdd(t, p) == [t EXCEPT ![p] = TRUE]

\* the trusted map after the write of removePublisher
trustedAfterRemove(t, p) == [t EXCEPT ![p] = FALSE]

\* variant: addPublisher without require(!isTrusted[_publisher])
addPublisherRevertSilent(sender, p) == onlyOwner(pubOwner, sender)

\* variant: addPublisher tests the membership before the owner
addPublisherRevertMembershipFirst(sender, p) ==
    IF isTrusted[p] THEN "Already trusted"
    ELSE onlyOwner(pubOwner, sender)

addPublisherRevert(sender, p) ==
    IF onlyOwner(pubOwner, sender) # "" THEN onlyOwner(pubOwner, sender)
    ELSE IF isTrusted[p] THEN "Already trusted"
    ELSE ""

\* variant: adding a publisher verifies the open articles that claim it
addPublisherVerifies(sender, p) ==
    /\ UNCHANGED now
    /\ IF addPublisherRevert(sender, p) # ""
       THEN Revert("addPublisher", addPublisherRevert(sender, p))
       ELSE /\ isTrusted' = [isTrusted EXCEPT ![p] = TRUE]
            /\ articles' = [h \in DOMAIN articles |->
                   IF /\ articles[h].createdAt # 0 /\ ~articles[h].finalized
                      /\ articles[h].publisher = p /\ p # 0
                   THEN [articles[h] EXCEPT !.status = "VerifiedTrue", !.finalized = TRUE]
                   ELSE articles[h]]
            /\ Commit("addPublisher", <<PublisherAdded(p)>>)
            /\ UNCHANGED <<pubOwner, newsOwner, votingPeriod, minVotes, hasVoted>>

\* variant: adding a publisher also hands the registry over to it
addPublisherHandsOver(sender, p) ==
    /\ UNCHANGED now
    /\ IF addPublisherRevert(sender, p) # ""
       THEN Revert("addPublisher", addPublisherRevert(sender, p))
       ELSE /\ isTrusted' = [isTrusted EXCEPT ![p] = TRUE]
            /\ pubOwner' = p
            /\ Commit("addPublisher", <<PublisherAdded(p)>>)
            /\ UNCHANGED newsState

addPublisher(sender, p) ==
    /\ UNCHANGED now
    /\ IF addPublisherRevert(sender, p) # ""
       THEN Revert("addPublisher", addPublisherRevert(sender, p))
       ELSE /\ isTrusted' = trustedAfterAdd(isTrusted, p)
            /\ Commit("addPublisher", <<PublisherAdded(p)>>)
            /\ UNCHANGED <<pubOwner, newsState>>

removePublisherRevert(sender, p) ==
    IF onlyOwner(pubOwner, sender) # "" THEN onlyOwner(pubOwner, sender)
    ELSE IF ~isTrusted[p] THEN "Not trusted"
    ELSE ""

removePublisher(sender, p) ==
    /\ UNCHANGED now
    /\ IF removePublisherRevert(sender, p) # ""
       THEN Revert("removePublisher", removePublisherRevert(sender, p))
       ELSE /\ isTrusted' = trustedAfterRemove(isTrusted, p)
            /\ Commit("removePublisher", <<PublisherRemoved(p)>>)
            /\ UNCHANGED <<pubOwner, newsState>>


trustStatus(p) == isTrusted[p]

\* ----------------------------------------------------------- NewsRegistry
\* variant: the existence test of submitArticle is missing
submitArticleRevertUnchecked(h) == ""

submitArticleRevert(h) ==
    IF articles[h].createdAt # 0 THEN "Already submitted" ELSE ""

\* variant: the claimed publisher is not compared with address(0)
autoVerifyTrustOnly(p) == isTrusted[p]

\* variant: the trust test of submitArticle is negated
autoVerifyNegated(p) == p # 0 /\ ~isTrusted[p]

\* the auto-verify test of submitArticle
autoVerify(p) == p # 0 /\ isTrusted[p]

\* variant: a plain submission records its claimed publisher as trusted
submitArticleTrusts(sender, h, uri, p) ==
    /\ UNCHANGED now
    /\ IF submitArticleRevert(h) # ""
       THEN Revert("submitArticle", submitArticleRevert(h))
       ELSE LET a == [articles[h] EXCEPT
                          !.contentHash = h, !.uri = uri, !.publisher = p,
                          !.submitter = sender, !.createdAt = now,
                          !.status = "UnderReview"]
            IN  /\ IF autoVerify(p)
                   THEN /\ articles' = [articles EXCEPT ![h] =
                                 [a EXCEPT !.status = "VerifiedTrue", !.finalized = TRUE]]
                        /\ Commit("submitArticle",
                                  <<PublisherAutoVerified(h), Finalized(h, "VerifiedTrue")>>)
                   ELSE /\ articles' = [articles EXCEPT ![h] = a]
                        /\ Commit("submitArticle", <<Submitted(h, sender, uri)>>)
                /\ isTrusted' = [isTrusted EXCEPT ![p] = TRUE]
                /\ UNCHANGED <<pubOwner, newsOwner, votingPeriod, minVotes, hasVoted>>

\* variant: auto-verification also requires the caller to be trusted
submitArticleCallerTrusted(sender, h, uri, p) ==
    /\ UNCHANGED now
    /\ IF submitArticleRevert(h) # ""
       THEN Revert("submitArticle", submitArticleRevert(h))
       ELSE LET a == [articles[h] EXCEPT
                          !.contentHash = h, !.uri = uri, !.publisher = p,
                          !.submitter = sender, !.createdAt = now,
                          !.status = "UnderReview"]
            IN  /\ IF autoVerify(p) /\ isTrusted[sender]
                   THEN /\ articles' = [articles EXCEPT ![h] =
                                 [a EXCEPT !.status = "VerifiedTrue", !.finalized = TRUE]]
                        /\ Commit("submitArticle",
                                  <<PublisherAutoVerified(h), Finalized(h, "VerifiedTrue")>>)
                   ELSE /\ articles' = [articles EXCEPT ![h] = a]
                        /\ Commit("submitArticle", <<Submitted(h, sender, uri)>>)
                /\ UNCHANGED <<pubState, newsOwner, votingPeriod, minVotes, hasVoted>>

submitArticle(sender, h, uri, p) ==
    /\ UNCHANGED now
    /\ IF submitArticleRevert(h) # ""
       THEN Revert("submitArticle", submitArticleRevert(h))
       ELSE LET a == [articles[h] EXCEPT
                          !.contentHash = h, !.uri = uri, !.publisher = p,
                          !.submitter = sender, !.createdAt = now,
                          !.status = "UnderReview"]
            IN  /\ IF autoVerify(p)
                   THEN /\ articles' = [articles EXCEPT ![h] =
                                 [a EXCEPT !.status = "VerifiedTrue", !.finalized = TRUE]]
                        /\ Commit("submitArticle",
                                  <<PublisherAutoVerified(h), Finalized(h, "VerifiedTrue")>>)
                   ELSE /\ articles' = [articles EXCEPT ![h] = a]
                        /\ Commit("submitArticle", <<Submitted(h, sender, uri)>>)
                /\ UNCHANGED <<pubState, newsOwner, votingPeriod, minVotes, hasVoted>>

\* variant: vote without require(a.createdAt != 0)
voteRevertNoExistenceTest(sender, h) ==
    IF articles[h].finalized THEN "Already finalized"
    ELSE IF hasVoted[h][sender] THEN "Already voted"
    ELSE ""

\* variant: vote without require(!hasVoted[_contentHash][msg.sender])
voteRevertNoDuplicateTest(sender, h) ==
    IF articles[h].createdAt = 0 THEN "Not submitted"
    ELSE IF articles[h].finalized THEN "Already finalized"
    ELSE ""

\* variant: vote tests hasVoted before finalized
voteRevertVotedFirst(sender, h) ==
    IF articles[h].createdAt = 0 THEN "Not submitted"
    ELSE IF hasVoted[h][sender] THEN "Already voted"
    ELSE IF articles[h].finalized THEN "Already finalized"
    ELSE ""

\* variant: vote without require(!a.finalized)
voteRevertNoFinalizedTest(sender, h) ==
    IF articles[h].createdAt = 0 THEN "Not submitted"
    ELSE IF hasVoted[h][sender] THEN "Already voted"
    ELSE ""

\* variant: vote also requires the caller to be a trusted publisher
voteRevertTrustedOnly(sender, h) ==
    IF articles[h].createdAt = 0 THEN "Not submitted"
    ELSE IF articles[h].finalized THEN "Already finalized"
    ELSE IF hasVoted[h][sender] THEN "Already voted"
    ELSE IF ~isTrusted[sender] THEN "Not trusted"
    ELSE ""

\* the three require statements of vote, in source order
voteRevert(sender, h) ==
    IF articles[h].createdAt = 0 THEN "Not submitted"
    ELSE IF articles[h].finalized THEN "Already finalized"
    ELSE IF hasVoted[h][sender] THEN "Already voted"
    ELSE ""

\* variant: the two counters are crossed
castVoteCrossed(a, support) ==
    IF support THEN [a EXCEPT !.noVotes = @ + 1] ELSE [a EXCEPT !.yesVotes = @ + 1]

\* the counter increment of vote
castVote(a, support) ==
    IF support THEN [a EXCEPT !.yesVotes = @ + 1] ELSE [a EXCEPT !.noVotes = @ + 1]

\* checked uint256 arithmetic: the operations of vote that can overflow
\* (Panic 0x11).  && short-circuits, so the deadline is only computed once
\* the quorum test has passed.
votePanics(a) ==
    \/ a.yesVotes > UintMax
    \/ a.noVotes > UintMax
    \/ a.yesVotes + a.noVotes > UintMax
    \/ (a.yesVotes + a.noVotes >= minVotes /\ a.createdAt + votingPeriod > UintMax)

\* variant: the finalization test is a disjunction
shouldFinalizeEither(a) ==
    LET totalVotes == a.yesVotes + a.noVotes
    IN  totalVotes >= minVotes \/ now >= a.createdAt + votingPeriod

\* variant: the finalization test ignores the voting window
shouldFinalizeQuorumOnly(a) ==
    LET totalVotes == a.yesVotes + a.noVotes
    IN  totalVotes >= minVotes

\* the finalization test of vote, on the record after the increment
shouldFinalize(a) ==
    LET totalVotes == a.yesVotes + a.noVotes
    IN  totalVotes >= minVotes /\ now >= a.createdAt + votingPeriod

\* variant: a tie leaves the status as it was
majorityTieStaysOpen(a) ==
    IF a.yesVotes > a.noVotes THEN "VerifiedTrue"
    ELSE IF a.noVotes > a.yesVotes THEN "MarkedFake"
    ELSE a.status

\* variant: a tie counts as a yes majority
majorityTieIsYes(a) ==
    IF a.yesVotes >= a.noVotes THEN "VerifiedTrue"
    ELSE "MarkedFake"

\* "finalize simple majority"
majority(a) ==
    IF a.yesVotes > a.noVotes THEN "VerifiedTrue"
    ELSE IF a.noVotes > a.yesVotes THEN "MarkedFake"
    ELSE "Disputed"

\* variant: the duplicate test comes after the counter increment has been
\* stored, and the rejection does not roll it back
votePartial(sender, h, support) ==
    /\ UNCHANGED now
    /\ IF voteRevert(sender, h) = "Already voted"
       THEN /\ articles' = [articles EXCEPT ![h] = castVote(@, support)]
            /\ last' = Receipt("vote", "Already voted", <<>>)
            /\ UNCHANGED <<pubState, newsOwner, votingPeriod, minVotes, hasVoted>>
       ELSE IF voteRevert(sender, h) # ""
       THEN Revert("vote", voteRevert(sender, h))
       ELSE LET a == castVote(articles[h], support)
            IN  IF votePanics(a)
                THEN Revert("vote", "Panic(0x11)")
                ELSE /\ hasVoted' = [hasVoted EXCEPT ![h][sender] = TRUE]
                     /\ IF shouldFinalize(a)
                        THEN /\ articles' = [articles EXCEPT ![h] =
                                     [a EXCEPT !.status = majority(a), !.finalized = TRUE]]
                             /\ Commit("vote", <<Voted(h, sender, support),
                                                 Finalized(h, majority(a))>>)
                        ELSE /\ articles' = [articles EXCEPT ![h] = a]
                             /\ Commit("vote", <<Voted(h, sender, support)>>)
                     /\ UNCHANGED <<pubState, newsOwner, votingPeriod, minVotes>>

\* variant: a vote marks the caller as having voted on every article
voteEverywhere(sender, h, support) ==
    /\ UNCHANGED now
    /\ IF voteRevert(sender, h) # ""
       THEN Revert("vote", voteRevert(sender, h))
       ELSE LET a == castVote(articles[h], support)
            IN  IF votePanics(a)
                THEN Revert("vote", "Panic(0x11)")
                ELSE /\ hasVoted' = [g \in DOMAIN hasVoted |->
                                        [hasVoted[g] EXCEPT ![sender] = TRUE]]
                     /\ IF shouldFinalize(a)
                        THEN /\ articles' = [articles EXCEPT ![h] =
                                     [a EXCEPT !.status = majority(a), !.finalized = TRUE]]
                             /\ Commit("vote", <<Voted(h, sender, support),
                                                 Finalized(h, majority(a))>>)
                        ELSE /\ articles' = [articles EXCEPT ![h] = a]
                             /\ Commit("vote", <<Voted(h, sender, support)>>)
                     /\ UNCHANGED <<pubState, newsOwner, votingPeriod, minVotes>>

vote(sender, h, support) ==
    /\ UNCHANGED now
    /\ IF voteRevert(sender, h) # ""
       THEN Revert("vote", voteRevert(sender, h))
       ELSE LET a == castVote(articles[h], support)
            IN  IF votePanics(a)
                THEN Revert("vote", "Panic(0x11)")
                ELSE /\ hasVoted' = [hasVoted EXCEPT ![h][sender] = TRUE]
                     /\ IF shouldFinalize(a)
                        THEN /\ articles' = [articles EXCEPT ![h] =
                                     [a EXCEPT !.status = majority(a), !.finalized = TRUE]]
                             /\ Commit("vote", <<Voted(h, sender, support),
                                                 Finalized(h, majority(a))>>)
                        ELSE /\ articles' = [articles EXCEPT ![h] = a]
                             /\ Commit("vote", <<Voted(h, sender, support)>>)
                     /\ UNCHANGED <<pubState, newsOwner, votingPeriod, minVotes>>

\* what vote(h, support) sent by sender does in the current state: the error
\* it reverts with ("" when it succeeds), the record of h, the caller's
\* hasVoted flag and the events it leaves behind
voteResult(sender, h, support) ==
    LET a == castVote(articles[h], support)
        kept == [article |-> articles[h], voted |-> hasVoted[h][sender], logs |-> <<>>]
    IN  IF voteRevert(sender, h) # ""
        THEN [err |-> voteRevert(sender, h)] @@ kept
        ELSE IF votePanics(a)
        THEN [err |-> "Panic(0x11)"] @@ kept
        ELSE IF shouldFinalize(a)
        THEN [err |-> "", voted |-> TRUE,
              article |-> [a EXCEPT !.finalized = TRUE, !.status = majority(a)],
              logs |-> <<Voted(h, sender, support), Finalized(h, majority(a))>>]
        ELSE [err |-> "", voted |-> TRUE, article |-> a,
              logs |-> <<Voted(h, sender, support)>>]

getArticle(h) ==
    LET a == articles[h]
    IN  <<a.contentHash, a.uri, a.publisher, a.submitter, a.createdAt,
          a.status, a.yesVotes, a.noVotes, a.finalized>>

\* variant: setVotingParams without the onlyOwner modifier
setVotingParamsRevertOpen(sender) == ""

setVotingParamsRevert(sender) == onlyOwner(newsOwner, sender)

\* variant: the two assignments are crossed
setVotingParamsCrossed(sender, p, m) ==
    /\ UNCHANGED now
    /\ IF setVotingParamsRevert(sender) # ""
       THEN Revert("setVotingParams", setVotingParamsRevert(sender))
       ELSE /\ votingPeriod' = m
            /\ minVotes' = p
            /\ Commit("setVotingParams", <<>>)
            /\ UNCHANGED <<pubState, newsOwner, articles, hasVoted>>

\* variant: changing the parameters also finalizes every open article that
\* satisfies the new quorum and window
setVotingParamsSweep(sender, p, m) ==
    /\ UNCHANGED now
    /\ IF setVotingParamsRevert(sender) # ""
       THEN Revert("setVotingParams", setVotingParamsRevert(sender))
       ELSE /\ votingPeriod' = p
            /\ minVotes' = m
            /\ articles' = [h \in DOMAIN articles |->
                   LET a == articles[h]
                   IN  IF /\ a.createdAt # 0 /\ ~a.finalized
                          /\ a.yesVotes + a.noVotes >= m /\ now >= a.createdAt + p
                       THEN [a EXCEPT !.status = majority(a), !.finalized = TRUE]
                       ELSE a]
            /\ Commit("setVotingParams", <<>>)
            /\ UNCHANGED <<pubState, newsOwner, hasVoted>>

setVotingParams(sender, p, m) ==
    /\ UNCHANGED now
    /\ IF setVotingParamsRevert(sender) # ""
       THEN Revert("setVotingParams", setVotingParamsRevert(sender))
       ELSE /\ votingPeriod' = p
            /\ minVotes' = m
            /\ Commit("setVotingParams", <<>>)
            /\ UNCHANGED <<pubState, newsOwner, articles, hasVoted>>

\* ------------------------------------------------------------------ ledger
\* A later block is mined: block.timestamp grows.
\* variant: a mined block finalizes every open article that meets quorum and
\* window at the new time
TickSweep(d, end) ==
    /\ now + d <= end
    /\ now' = now + d
    /\ articles' = [h \in DOMAIN articles |->
           LET a == articles[h]
           IN  IF /\ a.createdAt # 0 /\ ~a.finalized
                  /\ a.yesVotes + a.noVotes >= minVotes
                  /\ now + d >= a.createdAt + votingPeriod
               THEN [a EXCEPT !.status = majority(a), !.finalized = TRUE]
               ELSE a]
    /\ UNCHANGED <<pubState, newsOwner, votingPeriod, minVotes, hasVoted, last>>

Tick(d, end) ==
    /\ now + d <= end
    /\ now' = now + d
    /\ UNCHANGED <<chain, last>>

\* ---------------------------------------------------------- PublisherAdmin
\* The ledger holds one block per PublisherRegistry transaction, reverted
\* ones included: the logs of the transaction and the registry's storage
\* after it.  Block numbers are the positions 1..Len(ledger); an address is
\* shown in lower case, which names the same account.
Block(logs, storage) == [logs |-> logs, isTrusted |-> storage]

mine == ledger' = Append(ledger, Block(last'.logs, isTrusted'))

storageAt(k) == IF k = 0 THEN [a \in Address |-> FALSE] ELSE ledger[k].isTrusted

\* the logs of block n, each with its position
blockLogs(n) ==
    [i \in 1..Len(ledger[n].logs) |->
        [name |-> ledger[n].logs[i].name, addr |-> ledger[n].logs[i].addr,
         blockNumber |-> n, logIndex |-> i]]

\* contract.queryFilter(filter, 0, "latest") answered at block `latest`
RECURSIVE queryFilter(_, _)
queryFilter(name, latest) ==
    IF latest = 0 THEN <<>>
    ELSE queryFilter(name, latest - 1)
            \o SelectSeq(blockLogs(latest), LAMBDA e : e.name = name)

tagged(type, es) ==
    [i \in 1..Len(es) |->
        [type |-> type, addr |-> es[i].addr,
         blockNumber |-> es[i].blockNumber, logIndex |-> es[i].logIndex]]

\* evts.sort((a,b) => a.blockNumber - b.blockNumber || a.logIndex - b.logIndex)
sortEvts(evts) ==
    SortSeq(evts, LAMBDA a, b :
        \/ a.blockNumber < b.blockNumber
        \/ a.blockNumber = b.blockNumber /\ a.logIndex < b.logIndex)

\* for (const e of evts): add sets the key, remove deletes it
RECURSIVE replay(_, _)
replay(evts, map) ==
    IF evts = <<>> THEN map
    ELSE replay(Tail(evts),
                IF Head(evts).type = "add" THEN map \cup {Head(evts).addr}
                ELSE IF Head(evts).type = "remove" THEN map \ {Head(evts).addr}
                ELSE map)

\* useState([]) and no load() running; `from` is the block at which the
\* first query of the running load() was answered
AdminLoad == [pc |-> "idle", added |-> <<>>, from |-> 0, trustedList |-> {}]

AdminInit ==
    /\ ledger = <<>>
    /\ adminLoad = AdminLoad

\* load(): const added = await contract.queryFilter(PublisherAdded, 0, "latest")
loadAdded ==
    /\ adminLoad.pc = "idle"
    /\ adminLoad' = [adminLoad EXCEPT
                        !.pc = "added",
                        !.added = queryFilter("PublisherAdded", Len(ledger)),
                        !.from = Len(ledger)]
    /\ UNCHANGED <<chain, now, last, clients, appState, ledger>>

\* load(): const removed = await contract.queryFilter(PublisherRemoved, 0,
\* "latest"), then the merge, the sort, the replay and setTrustedList
loadRemoved ==
    /\ adminLoad.pc = "added"
    /\ LET removed == queryFilter("PublisherRemoved", Len(ledger))
           evts == tagged("add", adminLoad.added) \o tagged("remove", removed)
       IN  adminLoad' = [adminLoad EXCEPT
                            !.pc = "done",
                            !.trustedList = replay(sortEvts(evts), {})]
    /\ UNCHANGED <<chain, now, last, clients, appState, ledger>>

\* the effect runs again: refreshKey changed, or the page was opened again
reload ==
    /\ adminLoad.pc = "done"
    /\ adminLoad' = [adminLoad EXCEPT !.pc = "idle", !.added = <<>>, !.from = 0]
    /\ UNCHANGED <<chain, now, last, clients, appState, ledger>>

\* ---------------------------------------------------------------- frontend
\* One browser session per account, running SubmitArticle.submit() or
\* VoteArticle.vote() once.  Each await is a step of its own, so the reads a
\* session makes before it sends its transaction can be stale when the
\* transaction is mined.  pc is the position, hash the computed contentHash,
\* receipt the receipt of the session's transaction and seq its place in the
\* order in which the sessions' transactions were mined.
Session == [pc |-> "idle", hash |-> 0, receipt |-> Receipt("none", "", <<>>), seq |-> 0]

Mined == {c \in Clients : clients[c].seq # 0}

\* the session's transaction has been mined with the receipt last'
TxMined(c, pc) ==
    clients' = [clients EXCEPT ![c].pc = pc, ![c].receipt = last',
                               ![c].seq = Cardinality(Mined) + 1]

\* submit(): precheckHash(contentHashHex) reads getArticle and returns the
\* stored record, or null when createdAt is 0
submitPrecheck(c, h) ==
    /\ clients[c].pc = "idle"
    /\ clients' = [clients EXCEPT ![c].hash = h,
                       ![c].pc = IF getArticle(h)[5] = 0 THEN "submitChecked"
                                                         ELSE "submitFound"]
    /\ UNCHANGED <<chain, now, last>>

\* submit(): writeContract.submitArticle(...) and tx.wait()
submitSend(c, uri, p) ==
    /\ clients[c].pc = "submitChecked"
    /\ submitArticle(c, clients[c].hash, uri, p)
    /\ TxMined(c, "submitDone")

\* precheckForHash(): getArticle shows the article; articleExists is set
votePrecheck(c, h) ==
    /\ clients[c].pc = "idle"
    /\ getArticle(h)[5] # 0
    /\ clients' = [clients EXCEPT ![c].hash = h, ![c].pc = "voteFound"]
    /\ UNCHANGED <<chain, now, last>>

\* vote(): the hasVoted read that precedes the transaction
voteCheck(c) ==
    /\ clients[c].pc = "voteFound"
    /\ clients' = [clients EXCEPT
                       ![c].pc = IF hasVoted[clients[c].hash][c] THEN "voteAlready"
                                                                 ELSE "voteReady"]
    /\ UNCHANGED <<chain, now, last>>

\* vote(): writeContract.vote(hex, support) and tx.wait()
voteSend(c, support) ==
    /\ clients[c].pc = "voteReady"
    /\ vote(c, clients[c].hash, support)
    /\ TxMined(c, "voteDone")

\* --------------------------------------------------------------------- App
\* App.jsx: the role shown, the connected wallet account and the role check
\* of attemptSetRole.  attemptSetRole reads connectedAddress when it is
\* called, awaits the registry read, and sets the role when the read has
\* resolved; the wallet and the chain move on in between.  The role buttons
\* are disabled while checkingRole, so one check is in progress at a time.
Roles == {"guest", "publisher", "owner"}
NoCheck == [pc |-> "idle", requestedRole |-> "guest", addr |-> 0, ok |-> FALSE]
checkingRole == roleCheck.pc # "idle"

AppInit ==
    /\ role = "guest"
    /\ connectedAddress = 0
    /\ roleCheck = NoCheck

\* connectWallet(): eth_requestAccounts, then setConnectedAddress(accounts[0])
connectWallet(a) ==
    /\ connectedAddress = 0
    /\ connectedAddress' = a
    /\ UNCHANGED <<chain, now, last, clients, role, roleCheck>>

\* the accountsChanged listener: accounts is the wallet's new account list
handleAccounts(accounts) ==
    /\ connectedAddress' = IF Len(accounts) > 0 THEN accounts[1] ELSE 0
    /\ role' = IF Len(accounts) = 0 THEN "guest" ELSE role
    /\ UNCHANGED <<chain, now, last, clients, roleCheck>>

disconnectWallet ==
    /\ connectedAddress # 0
    /\ connectedAddress' = 0
    /\ role' = "guest"
    /\ UNCHANGED <<chain, now, last, clients, roleCheck>>

\* attemptSetRole(requestedRole) up to its await
attemptSetRole(requestedRole) ==
    /\ ~checkingRole
    /\ IF requestedRole = "guest"
       THEN role' = "guest" /\ UNCHANGED roleCheck
       ELSE IF connectedAddress = 0
       THEN UNCHANGED <<role, roleCheck>>
       ELSE /\ roleCheck' = [pc |-> "reading", requestedRole |-> requestedRole,
                             addr |-> connectedAddress, ok |-> FALSE]
            /\ UNCHANGED role
    /\ UNCHANGED <<chain, now, last, clients, connectedAddress>>

\* isTrustedPublisher(addr) / isOwnerAddress(addr): the registry read
roleCheckRead ==
    /\ roleCheck.pc = "reading"
    /\ roleCheck' = [roleCheck EXCEPT
                         !.pc = "resolved",
                         !.ok = IF roleCheck.requestedRole = "publisher"
                                THEN trustStatus(roleCheck.addr)
                                ELSE pubOwner = roleCheck.addr]
    /\ UNCHANGED <<chain, now, last, clients, role, connectedAddress>>

\* attemptSetRole after its await: setRole(requestedRole) if the read said
\* yes, and finally setCheckingRole(false)
roleCheckDone ==
    /\ roleCheck.pc = "resolved"
    /\ role' = IF roleCheck.ok THEN roleCheck.requestedRole ELSE role
    /\ roleCheck' = NoCheck
    /\ UNCHANGED <<chain, now, last, clients, connectedAddress>>

\* ------------------------------------------------------------ specification
Deployer == 1

\* Both constructors have run: Ownable(msg.sender), empty mappings, and the
\* NewsRegistry constructor arguments _votingPeriod and _minVotes stored.
Init ==
    /\ pubOwner = Deployer
    /\ newsOwner = Deployer
    /\ isTrusted = [a \in Address |-> FALSE]
    /\ votingPeriod \in PeriodArgs
    /\ minVotes \in MinVotesArgs
    /\ articles = [h \in Hashes |-> Article]
    /\ hasVoted = [h \in Hashes |-> [a \in Address |-> FALSE]]
    /\ now = 1
    /\ last = Receipt("constructor", "", <<>>)
    /\ clients = [c \in Clients |-> Session]
    /\ AppInit
    /\ AdminInit

AddPublisher == \E s \in Senders, p \in PubArgs : addPublisher(s, p)
RemovePublisher == \E s \in Senders, p \in PubArgs : removePublisher(s, p)
SubmitArticle == \E s \in Senders, h \in Hashes, u \in Uris, p \in PubArgs : submitArticle(s, h, u, p)
Vote == \E s \in Senders, h \in Hashes, b \in BOOLEAN : vote(s, h, b)
SetVotingParams == \E s \in Senders, p \in PeriodArgs, m \in MinVotesArgs : setVotingParams(s, p, m)
NextBlock == Tick(1, MaxTime)

Next ==
    \/ AddPublisher /\ UNCHANGED frontend
    \/ RemovePublisher /\ UNCHANGED frontend
    \/ SubmitArticle /\ UNCHANGED frontend
    \/ Vote /\ UNCHANGED frontend
    \/ SetVotingParams /\ UNCHANGED frontend
    \/ NextBlock /\ UNCHANGED frontend

Spec == Init /\ [][Next]_vars

\* The configuration of scripts/deploy.js: News.deploy(pub.address, 60, 1) and
\* pub.addPublisher(deployer.address).  Every account may vote; blocks arrive
\* 10 or 51 seconds apart.
DeployedPeriod == 60
DeployedMinVotes == 1
BlockGaps == {10, 51}

InitDeployed ==
    /\ pubOwner = Deployer
    /\ newsOwner = Deployer
    /\ isTrusted = [a \in Address |-> FALSE]
    /\ votingPeriod = DeployedPeriod
    /\ minVotes = DeployedMinVotes
    /\ articles = [h \in Hashes |-> Article]
    /\ hasVoted = [h \in Hashes |-> [a \in Address |-> FALSE]]
    /\ now = 1
    /\ last = Receipt("constructor", "", <<>>)
    /\ clients = [c \in Clients |-> Session]
    /\ AppInit
    /\ AdminInit

DeployedVote == \E s \in Callers, h \in Hashes, b \in BOOLEAN : vote(s, h, b)
DeployedSubmit == \E s \in Senders, h \in Hashes, p \in PubArgs : submitArticle(s, h, "", p)
DeployedParams == \E s \in Senders, m \in {DeployedMinVotes, DeployedMinVotes + 1} :
                      setVotingParams(s, DeployedPeriod, m)
DeployedBlock == \E d \in BlockGaps : Tick(d, Horizon)

DeployedAdd == \E s \in Senders : addPublisher(s, Deployer)
DeployedRemove == \E s \in Senders : removePublisher(s, Deployer)

NextDeployed ==
    \/ DeployedAdd /\ UNCHANGED frontend
    \/ DeployedRemove /\ UNCHANGED frontend
    \/ DeployedSubmit /\ UNCHANGED frontend
    \/ DeployedVote /\ UNCHANGED frontend
    \/ DeployedParams /\ UNCHANGED frontend
    \/ DeployedBlock /\ UNCHANGED frontend

SpecDeployed == InitDeployed /\ [][NextDeployed]_vars

\* Two articles side by side: the deployer submits, the senders vote, the
\* owner moves the parameters between (0, 1) and (MaxPeriod, MaxMinVotes) and
\* trusts or distrusts publisher 1, and blocks are mined.
PairHashes == 1..(NumHashes + 1)

InitPair ==
    /\ pubOwner = Deployer
    /\ isTrusted = [a \in Address |-> FALSE]
    /\ newsOwner = Deployer
    /\ votingPeriod = MaxPeriod
    /\ minVotes = MaxMinVotes
    /\ articles = [h \in PairHashes |-> Article]
    /\ hasVoted = [h \in PairHashes |-> [a \in Address |-> FALSE]]
    /\ now = 1
    /\ last = Receipt("constructor", "", <<>>)
    /\ clients = [c \in Clients |-> Session]
    /\ AppInit
    /\ AdminInit

PairSubmit == \E h \in PairHashes, p \in PubArgs : submitArticle(Deployer, h, "", p)
PairVote == \E s \in Senders, h \in PairHashes, b \in BOOLEAN : vote(s, h, b)
PairParams ==
    \E pm \in {<<0, 1>>, <<MaxPeriod, MaxMinVotes>>} :
        setVotingParams(Deployer, pm[1], pm[2])
PairAdd == \E p \in PubArgs \ {0} : addPublisher(Deployer, p)
PairRemove == \E p \in PubArgs \ {0} : removePublisher(Deployer, p)

NextPair ==
    \/ PairSubmit /\ UNCHANGED frontend
    \/ PairVote /\ UNCHANGED frontend
    \/ PairParams /\ UNCHANGED frontend
    \/ PairAdd /\ UNCHANGED frontend
    \/ PairRemove /\ UNCHANGED frontend
    \/ NextBlock /\ UNCHANGED frontend

SpecPair == InitPair /\ [][NextPair]_vars

\* The frontend sessions racing each other: all submissions and votes come
\* from sessions; the owner may add the deployer as publisher and blocks are
\* mined in between.
SubmitPrecheck == \E c \in Clients, h \in Hashes : submitPrecheck(c, h)
SubmitSend == \E c \in Clients, p \in PubArgs : submitSend(c, "", p)
VotePrecheck == \E c \in Clients, h \in Hashes : votePrecheck(c, h)
VoteCheck == \E c \in Clients : voteCheck(c)
VoteSend == \E c \in Clients, b \in BOOLEAN : voteSend(c, b)

NextRace ==
    \/ SubmitPrecheck /\ UNCHANGED <<appState, adminState>>
    \/ SubmitSend /\ UNCHANGED <<appState, adminState>>
    \/ VotePrecheck /\ UNCHANGED <<appState, adminState>>
    \/ VoteCheck /\ UNCHANGED <<appState, adminState>>
    \/ VoteSend /\ UNCHANGED <<appState, adminState>>
    \/ DeployedAdd /\ UNCHANGED frontend
    \/ NextBlock /\ UNCHANGED frontend

SpecRace == Init /\ [][NextRace]_vars

\* The App of one browser against the publisher registry: the user connects,
\* disconnects and asks for roles, the wallet switches accounts, and the
\* owner adds and removes the accounts as publishers.
ConnectWallet == \E a \in Senders : connectWallet(a)
AccountsChanged == \E accounts \in {<<>>} \cup {<<a>> : a \in Senders} : handleAccounts(accounts)
AttemptSetRole == \E r \in Roles : attemptSetRole(r)
AppAdd == \E p \in Senders : addPublisher(Deployer, p)
AppRemove == \E p \in Senders : removePublisher(Deployer, p)

NextApp ==
    \/ ConnectWallet /\ UNCHANGED adminState
    \/ AccountsChanged /\ UNCHANGED adminState
    \/ disconnectWallet /\ UNCHANGED adminState
    \/ AttemptSetRole /\ UNCHANGED adminState
    \/ roleCheckRead /\ UNCHANGED adminState
    \/ roleCheckDone /\ UNCHANGED adminState
    \/ AppAdd /\ UNCHANGED frontend
    \/ AppRemove /\ UNCHANGED frontend

SpecApp == Init /\ [][NextApp]_vars

\* The admin page against the publisher registry: the owner and another
\* account send addPublisher and removePublisher, from this page or from
\* anywhere else, while the page loads its list; every transaction is mined
\* into the ledger.
AdminAdd ==
    \E s \in Senders, p \in PubArgs :
        /\ Len(ledger) < MaxBlocks
        /\ addPublisher(s, p)
        /\ mine
AdminRemove ==
    \E s \in Senders, p \in PubArgs :
        /\ Len(ledger) < MaxBlocks
        /\ removePublisher(s, p)
        /\ mine

NextAdmin ==
    \/ AdminAdd /\ UNCHANGED <<clients, appState, adminLoad>>
    \/ AdminRemove /\ UNCHANGED <<clients, appState, adminLoad>>
    \/ loadAdded
    \/ loadRemoved
    \/ reload

SpecAdmin == Init /\ [][NextAdmin]_vars

\* the ledger records the registry: its last block holds the current map,
\* and the events of all blocks replayed in order give the trusted set
LedgerOK ==
    /\ storageAt(Len(ledger)) = isTrusted
    /\ replay(sortEvts(tagged("add", queryFilter("PublisherAdded", Len(ledger)))
                        \o tagged("remove", queryFilter("PublisherRemoved", Len(ledger)))), {})
          = {a \in Address : isTrusted[a]}

\* a load() whose two queries are answered at the same block shows the
\* trusted set of that block
LoadAtOneBlock ==
    [][(loadRemoved /\ adminLoad.from = Len(ledger)) =>
          adminLoad'.trustedList = {a \in Address : isTrusted[a]}]_vars

\* such a load() has finished with an account in its list, after a removal
\* and a rejected call
LoadAtOneBlockReached ==
    /\ adminLoad.pc = "done" /\ adminLoad.from = Len(ledger)
    /\ adminLoad.trustedList # {}
    /\ \E k \in 1..Len(ledger) : ledger[k].logs = <<>>
    /\ \E k \in 1..Len(ledger) : \E p \in PubArgs : ledger[k].logs = <<PublisherRemoved(p)>>

TypeOK ==
    /\ pubOwner \in Callers
    /\ newsOwner \in Callers
    /\ isTrusted \in [Address -> BOOLEAN]
    /\ votingPeriod \in 0..UintMax
    /\ minVotes \in 0..UintMax
    /\ \A h \in DOMAIN articles :
          /\ articles[h].status \in Status
          /\ articles[h].createdAt \in 0..now
          /\ articles[h].finalized \in BOOLEAN
    /\ hasVoted \in [DOMAIN articles -> [Address -> BOOLEAN]]
    /\ now \in 1..Horizon
    /\ \A c \in Clients :
          /\ clients[c].hash \in 0..NumHashes
          /\ clients[c].seq \in 0..NumClients
    /\ role \in Roles
    /\ connectedAddress \in Address
    /\ roleCheck.pc \in {"idle", "reading", "resolved"}

\* ------------------------------------------------------------------ claims
\* A property about a transaction names it by its action, f(sender, args),
\* and ranges over the senders and arguments its specification draws from:
\* Senders and PubArgs under Spec, Callers for the votes of SpecDeployed.
\* The outcome is read from the receipt last'.
totalVotes(a) == a.yesVotes + a.noVotes
Succeeded == last'.err = ""
Reverted(op, err) == last' = Receipt(op, err, <<>>) /\ UNCHANGED chain

\* C1: once submitArticle(h, ...) has succeeded the record exists
\* (createdAt # 0); from then on every submitArticle(h, ...), by any caller
\* with any uri and publisher, reverts with "Already submitted", and
\* getArticle(h) keeps returning the same submitter and createdAt.
C1_DuplicateSubmission ==
    [][\A h \in Hashes :
          /\ last'.op = "submitArticle" =>
                 \A s \in Senders, u \in Uris, p \in PubArgs :
                     submitArticle(s, h, u, p) =>
                         IF articles[h].createdAt # 0
                         THEN Reverted("submitArticle", "Already submitted")
                         ELSE /\ Succeeded
                              /\ getArticle(h)'[4] = s
                              /\ getArticle(h)'[5] = now
                              /\ getArticle(h)'[5] # 0
          /\ articles[h].createdAt # 0 =>
                 /\ getArticle(h)'[4] = getArticle(h)[4]
                 /\ getArticle(h)'[5] = getArticle(h)[5]]_vars

C1_Witness ==
    /\ last = Receipt("submitArticle", "Already submitted", <<>>)
    /\ \E h \in Hashes : articles[h].createdAt # 0 /\ articles[h].createdAt < now

\* C2: per (article, address) pair a vote succeeds only while no vote of that
\* address is recorded, the record is never cleared, and in every step
\* yesVotes + noVotes grows by exactly the number of addresses whose vote
\* is recorded in that step: each voter counts once.
C2_OneVotePerAddress ==
    [][\A h \in Hashes :
          /\ \A v \in Address : hasVoted[h][v] => hasVoted'[h][v]
          /\ last'.op = "vote" /\ Succeeded =>
                 \A v \in Senders, b \in BOOLEAN :
                     vote(v, h, b) => ~hasVoted[h][v] /\ hasVoted'[h][v]
          /\ totalVotes(articles'[h]) = totalVotes(articles[h])
                 + Cardinality({v \in Address : ~hasVoted[h][v] /\ hasVoted'[h][v]})]_vars

C2_Witness ==
    \E h \in Hashes :
        /\ Cardinality({v \in Address : hasVoted[h][v]}) = 2
        /\ totalVotes(articles[h]) = 2
        /\ last = Receipt("vote", "Already voted", <<>>)

\* C3 as stated: whenever an address that has voted on h calls vote(h, ...)
\* again, the call reverts with "Already voted".
C3_AlwaysDuplicateVote ==
    [][last'.op = "vote" =>
          \A h \in Hashes, v \in Senders, b \in BOOLEAN :
              hasVoted[h][v] /\ vote(v, h, b) => last'.err = "Already voted"]_vars

\* C3, amended: a second vote(h, ...) of the same address always reverts and
\* changes nothing; the reason is "Already voted" while h is not finalized
\* and "Already finalized" once h is finalized.
C3_SecondVoteReverts ==
    [][last'.op = "vote" =>
          \A h \in Hashes, v \in Senders, b \in BOOLEAN :
              hasVoted[h][v] /\ vote(v, h, b) =>
                  IF articles[h].finalized
                  THEN Reverted("vote", "Already finalized")
                  ELSE Reverted("vote", "Already voted")]_vars

C3_Witness ==
    \E h \in Hashes :
        /\ articles[h].finalized
        /\ totalVotes(articles[h]) = 1
        /\ Cardinality({v \in Senders : hasVoted[h][v]}) = 1
        /\ last = Receipt("vote", "Already finalized", <<>>)

\* C4: once an article is finalized it stays finalized, its status, yesVotes
\* and noVotes never change, and every vote on it, by any caller, reverts
\* with "Already finalized".
C4_FinalizedIsTerminal ==
    [][\A h \in Hashes :
          articles[h].finalized =>
              /\ articles'[h].finalized
              /\ articles'[h].status = articles[h].status
              /\ articles'[h].yesVotes = articles[h].yesVotes
              /\ articles'[h].noVotes = articles[h].noVotes
              /\ last'.op = "vote" =>
                     \A s \in Senders, b \in BOOLEAN :
                         vote(s, h, b) => Reverted("vote", "Already finalized")]_vars

C4_Witness ==
    \E h \in Hashes, v \in Senders :
        /\ articles[h].finalized /\ totalVotes(articles[h]) > 0
        /\ isTrusted[v] /\ ~hasVoted[h][v]
        /\ last = Receipt("vote", "Already finalized", <<>>)

\* C5: a vote that succeeds finalizes the article in the same transaction
\* exactly when, counting that vote, yesVotes + noVotes >= minVotes and
\* block.timestamp >= createdAt + votingPeriod.
C5_FinalizeIffQuorumAndWindow ==
    [][last'.op = "vote" /\ Succeeded =>
          \A h \in Hashes, s \in Senders, b \in BOOLEAN :
              vote(s, h, b) =>
                  /\ ~articles[h].finalized
                  /\ articles'[h].finalized <=>
                         /\ articles[h].yesVotes + articles[h].noVotes + 1 >= minVotes
                         /\ now >= articles[h].createdAt + votingPeriod]_vars

\* the latest transaction is a vote that met the quorum inside the window
C5_WitnessQuorumEarly ==
    \E h \in Hashes :
        /\ last.op = "vote" /\ last.err = ""
        /\ ~articles[h].finalized
        /\ totalVotes(articles[h]) >= minVotes
        /\ now < articles[h].createdAt + votingPeriod

\* the latest transaction is a vote that finalized the article
C5_WitnessFinalized ==
    \E h \in Hashes :
        /\ last.op = "vote" /\ last.err = "" /\ Len(last.logs) = 2
        /\ articles[h].finalized
        /\ votingPeriod > 0

\* the latest transaction is a vote after the window that missed the quorum
C5_Witness ==
    \E h \in Hashes :
        /\ last.op = "vote" /\ last.err = ""
        /\ ~articles[h].finalized
        /\ totalVotes(articles[h]) < minVotes
        /\ now >= articles[h].createdAt + votingPeriod
        /\ votingPeriod > 0

plurality(y, n) == IF y > n THEN "VerifiedTrue" ELSE IF n > y THEN "MarkedFake" ELSE "Disputed"

\* C6: whenever a vote finalizes an article, the status written (and carried
\* by the Finalized event) is VerifiedTrue if yesVotes > noVotes, MarkedFake
\* if noVotes > yesVotes and Disputed if they are equal, the counters
\* including the finalizing vote.
C6_VerdictIsPlurality ==
    [][last'.op = "vote" /\ Succeeded =>
          \A h \in Hashes, s \in Callers, b \in BOOLEAN :
              vote(s, h, b) /\ articles'[h].finalized =>
                  LET y == articles[h].yesVotes + (IF b THEN 1 ELSE 0)
                      n == articles[h].noVotes + (IF b THEN 0 ELSE 1)
                  IN  /\ articles'[h].yesVotes = y
                      /\ articles'[h].noVotes = n
                      /\ articles'[h].status = plurality(y, n)
                      /\ last'.logs[2] = Finalized(h, plurality(y, n))]_vars

VoteFinalizedWith(y, n, st) ==
    \E h \in Hashes :
        /\ last.op = "vote" /\ last.err = "" /\ Len(last.logs) = 2
        /\ articles[h].finalized
        /\ articles[h].yesVotes = y /\ articles[h].noVotes = n
        /\ articles[h].status = st

C6_Witness == VoteFinalizedWith(2, 2, "Disputed")
C6_WitnessYes == VoteFinalizedWith(3, 1, "VerifiedTrue")
C6_WitnessNo == VoteFinalizedWith(1, 3, "MarkedFake")

\* C7: with votingPeriod = 60 and minVotes = 1, the first vote on an article,
\* cast at createdAt + 10, leaves it UnderReview and not finalized, and the
\* second vote, cast at createdAt + 61, finalizes it.
C7_TimeGate ==
    [][last'.op = "vote" /\ Succeeded /\ votingPeriod = 60 /\ minVotes = 1 =>
          \A h \in Hashes, s \in Callers, b \in BOOLEAN :
              vote(s, h, b) =>
                  /\ totalVotes(articles[h]) = 0 /\ now = articles[h].createdAt + 10
                         => /\ ~articles'[h].finalized
                            /\ articles'[h].status = "UnderReview"
                            /\ totalVotes(articles'[h]) = 1
                  /\ totalVotes(articles[h]) = 1 /\ now = articles[h].createdAt + 61
                         => /\ articles'[h].finalized
                            /\ articles'[h].status # "UnderReview"
                            /\ totalVotes(articles'[h]) = 2]_vars

\* the first vote was cast before createdAt + 60 (the article was still open
\* for the second), the second at createdAt + 61
C7_Witness ==
    \E h \in Hashes :
        /\ votingPeriod = 60 /\ minVotes = 1
        /\ last.op = "vote" /\ last.err = "" /\ Len(last.logs) = 2
        /\ articles[h].finalized
        /\ totalVotes(articles[h]) = 2
        /\ now = articles[h].createdAt + 61

C7_WitnessFirstVote ==
    \E h \in Hashes :
        /\ votingPeriod = 60 /\ minVotes = 1
        /\ last.op = "vote" /\ last.err = "" /\ Len(last.logs) = 1
        /\ ~articles[h].finalized /\ articles[h].status = "UnderReview"
        /\ totalVotes(articles[h]) = 1
        /\ now = articles[h].createdAt + 10

AutoVerified(h) ==
    /\ articles'[h].finalized
    /\ articles'[h].status = "VerifiedTrue"
    /\ articles'[h].yesVotes = 0
    /\ articles'[h].noVotes = 0
    /\ hasVoted' = hasVoted
    /\ \A v \in Address : ~hasVoted'[h][v]

\* C8 as stated: a successful submitArticle(h, uri, P) with isTrusted[P] true,
\* for every address P, yields a finalized VerifiedTrue article with no votes.
C8_EveryTrustedPublisher ==
    [][last'.op = "submitArticle" /\ Succeeded =>
          \A h \in Hashes, s \in Senders, u \in Uris, p \in PubArgs :
              submitArticle(s, h, u, p) /\ isTrusted[p] => AutoVerified(h)]_vars

\* C8, amended: a successful submitArticle(h, uri, P) with P # address(0) and
\* isTrusted[P] true yields finalized = true, status = VerifiedTrue,
\* yesVotes = noVotes = 0 at once, and creates no vote record.
C8_AutoVerify ==
    [][last'.op = "submitArticle" /\ Succeeded =>
          \A h \in Hashes, s \in Senders, u \in Uris, p \in PubArgs :
              submitArticle(s, h, u, p) /\ isTrusted[p] /\ p # 0 => AutoVerified(h)]_vars

C8_Witness ==
    \E h \in Hashes :
        /\ last = Receipt("submitArticle", "",
                           <<PublisherAutoVerified(h), Finalized(h, "VerifiedTrue")>>)
        /\ articles[h].publisher # 0 /\ isTrusted[articles[h].publisher]
        /\ articles[h].finalized /\ articles[h].status = "VerifiedTrue"

\* C9: sent by the owner, addPublisher(P) on a trusted P reverts with
\* "Already trusted" and removePublisher(Q) on an untrusted Q reverts with
\* "Not trusted", the mapping unchanged and no event emitted; when they
\* succeed, addPublisher sets isTrusted[P] and removePublisher clears it.
C9_TrustIdempotency ==
    [][/\ last'.op = "addPublisher" =>
              \A s \in Senders, p \in PubArgs :
                  addPublisher(s, p) =>
                      /\ s = pubOwner /\ isTrusted[p] => Reverted("addPublisher", "Already trusted")
                      /\ Succeeded => isTrusted' = [isTrusted EXCEPT ![p] = TRUE]
                      /\ s = pubOwner /\ ~isTrusted[p] => Succeeded
       /\ last'.op = "removePublisher" =>
              \A s \in Senders, p \in PubArgs :
                  removePublisher(s, p) =>
                      /\ s = pubOwner /\ ~isTrusted[p] => Reverted("removePublisher", "Not trusted")
                      /\ Succeeded => isTrusted' = [isTrusted EXCEPT ![p] = FALSE]
                      /\ s = pubOwner /\ isTrusted[p] => Succeeded]_vars

C9_Witness ==
    /\ last = Receipt("addPublisher", "Already trusted", <<>>)
    /\ \E p \in PubArgs : isTrusted[p]

C9_WitnessRemove ==
    /\ last = Receipt("removePublisher", "Not trusted", <<>>)
    /\ \E p \in PubArgs : ~isTrusted[p]

\* C10: addPublisher, removePublisher and setVotingParams sent by an address
\* other than the owner of the contract called revert with
\* OwnableUnauthorizedAccount and change no contract state.
C10_OwnerGating ==
    [][/\ last'.op = "addPublisher" =>
              \A s \in Senders, p \in PubArgs :
                  addPublisher(s, p) /\ s # pubOwner =>
                      Reverted("addPublisher", "OwnableUnauthorizedAccount")
       /\ last'.op = "removePublisher" =>
              \A s \in Senders, p \in PubArgs :
                  removePublisher(s, p) /\ s # pubOwner =>
                      Reverted("removePublisher", "OwnableUnauthorizedAccount")
       /\ last'.op = "setVotingParams" =>
              \A s \in Senders, p \in PeriodArgs, m \in MinVotesArgs :
                  setVotingParams(s, p, m) /\ s # newsOwner =>
                      Reverted("setVotingParams", "OwnableUnauthorizedAccount")]_vars

C10_Witness ==
    /\ last = Receipt("setVotingParams", "OwnableUnauthorizedAccount", <<>>)
    /\ \E p \in PubArgs : isTrusted[p]
    /\ \E h \in Hashes : articles[h].createdAt # 0
\* C11: only trusted publishers can vote: every vote that succeeds was cast
\* by an address that the publisher registry trusts at the time of the vote.
C11_OnlyTrustedVote ==
    [][last'.op = "vote" /\ Succeeded =>
          \A s \in Senders, h \in Hashes, b \in BOOLEAN :
              vote(s, h, b) => isTrusted[s]]_vars

Done(op, h) == {c \in Mined : clients[c].receipt.op = op /\ clients[c].hash = h}

\* C13: when submissions for the same fingerprint race, in every interleaving
\* exactly one commits (the first one mined, which becomes the submitter) and
\* every other one fails with "Already submitted"; every one of them had run
\* the getArticle pre-check and seen createdAt = 0 before it sent.
C13_OneSubmissionWins ==
    \A h \in Hashes :
        LET done == Done("submitArticle", h)
        IN  done # {} =>
                \E w \in done :
                    /\ clients[w].receipt.err = ""
                    /\ articles[h].createdAt # 0
                    /\ articles[h].submitter = w
                    /\ \A c \in done \ {w} :
                          /\ clients[c].seq > clients[w].seq
                          /\ clients[c].receipt =
                                 Receipt("submitArticle", "Already submitted", <<>>)

\* two sessions pre-checked the same fingerprint, both sent, and the one mined
\* second was rejected
C13_Witness ==
    \E h \in Hashes : \E w, c \in Done("submitArticle", h) :
        /\ clients[w].seq < clients[c].seq
        /\ clients[w].receipt.err = ""
        /\ clients[c].receipt.err = "Already submitted"

\* the transaction of session c finalized its article
FinalizedBy(c) ==
    \E i \in 1..Len(clients[c].receipt.logs) : clients[c].receipt.logs[i].name = "Finalized"

\* C14 as stated: of two racing votes on the same article, the first of which
\* is mined while the article is open, both are recorded (hasVoted set, a
\* counter incremented), and if one of them finalizes the article it is the
\* one mined second.
C14_BothVotesRecorded ==
    \A h \in Hashes : \A c1, c2 \in Done("vote", h) :
        (clients[c1].seq < clients[c2].seq /\ clients[c1].receipt.err = "") =>
            /\ hasVoted[h][c1]
            /\ clients[c2].receipt.err = "" /\ hasVoted[h][c2]
            /\ ~FinalizedBy(c1)

\* C14, amended: of two racing votes on the same article, the one mined
\* second is rejected with "Already finalized", and not recorded, exactly
\* when the article had been finalized before it was mined, in particular
\* when the check of the first vote finalized it.  Every accepted vote is
\* recorded (hasVoted set, one counter incremented) and a rejected one is
\* not; when both are accepted only the second one can have finalized.
C14_RacingVotes ==
    \A h \in Hashes :
        /\ \A c \in Done("vote", h) :
              /\ hasVoted[h][c] <=> clients[c].receipt.err = ""
              /\ clients[c].receipt = Receipt("vote", "Already finalized", <<>>)
                    <=> \E f \in Mined : /\ clients[f].hash = h
                                         /\ clients[f].seq < clients[c].seq
                                         /\ FinalizedBy(f)
        /\ totalVotes(articles[h]) =
              Cardinality({c \in Done("vote", h) : clients[c].receipt.err = ""})
        /\ \A c1, c2 \in Done("vote", h) :
              (/\ clients[c1].seq < clients[c2].seq
               /\ clients[c1].receipt.err = ""
               /\ clients[c2].receipt.err = "") => ~FinalizedBy(c1)

\* the vote mined first finalized the article and the vote mined second,
\* sent by a session that had seen the article open, was rejected
C14_Witness ==
    \E h \in Hashes : \E c1, c2 \in Done("vote", h) :
        /\ clients[c1].seq < clients[c2].seq
        /\ clients[c1].receipt.err = "" /\ FinalizedBy(c1)
        /\ clients[c2].receipt.err = "Already finalized"
        /\ ~hasVoted[h][c2]

\* both racing votes were recorded and the check of the second one finalized
C14_WitnessSecondFinalizes ==
    \E h \in Hashes : \E c1, c2 \in Done("vote", h) :
        /\ clients[c1].seq < clients[c2].seq
        /\ hasVoted[h][c1] /\ hasVoted[h][c2]
        /\ ~FinalizedBy(c1) /\ FinalizedBy(c2)
\* the errors a call can be rejected with
Rejections ==
    [submitArticle |-> {"Already submitted"},
     vote |-> {"Not submitted", "Already finalized", "Already voted", "Panic(0x11)"},
     addPublisher |-> {"OwnableUnauthorizedAccount", "Already trusted"},
     removePublisher |-> {"OwnableUnauthorizedAccount", "Not trusted"},
     setVotingParams |-> {"OwnableUnauthorizedAccount"}]

\* C15: every failing call leaves the whole contract state unchanged and
\* emits no event, whatever it was rejected for; a vote rejected as "Already
\* voted" increments no counter and a vote rejected as "Not submitted" creates
\* no article and no vote record.
C15_FailureIsAtomic ==
    [][/\ last'.err # "" =>
             (/\ UNCHANGED chain
              /\ last'.logs = <<>>
              /\ last'.err \in Rejections[last'.op])
       /\ (last'.op = "vote") =>
             (\A s \in Senders, h \in Hashes, b \in BOOLEAN :
                 (vote(s, h, b) /\ voteRevert(s, h) # "") =>
                     (/\ last'.err = voteRevert(s, h)
                      /\ articles'[h] = articles[h]
                      /\ hasVoted'[h] = hasVoted[h]))]_vars

\* a vote has just been rejected as "Already voted" on an article that holds
\* exactly the one vote cast before it
C15_Witness ==
    \E h \in Hashes :
        /\ last = Receipt("vote", "Already voted", <<>>)
        /\ totalVotes(articles[h]) = 1
        /\ Cardinality({v \in Address : hasVoted[h][v]}) = 1

\* a vote has just been rejected as "Not submitted" and no record exists
C15_WitnessNotFound ==
    \E h \in Hashes :
        /\ last = Receipt("vote", "Not submitted", <<>>)
        /\ articles[h] = Article
        /\ \A v \in Address : ~hasVoted[h][v]
\* article h would be finalized by a check made now
Qualifies(h) ==
    /\ articles[h].createdAt # 0 /\ ~articles[h].finalized
    /\ totalVotes(articles[h]) >= minVotes
    /\ now >= articles[h].createdAt + votingPeriod

\* C16: finalized and status of article h change only in a successful vote
\* on h or in the auto-verify branch of the submitArticle that creates h.
\* Mined blocks, setVotingParams, addPublisher, removePublisher and
\* transactions on another article leave both fields of h alone, also when h
\* meets the quorum and its window has elapsed.
C16_OnlyVoteFinalizes ==
    [][\A h \in PairHashes :
          (\/ articles'[h].finalized # articles[h].finalized
           \/ articles'[h].status # articles[h].status) =>
              \/ /\ last'.op = "vote" /\ Succeeded
                 /\ \E s \in Senders, b \in BOOLEAN : vote(s, h, b)
              \/ /\ last'.op = "submitArticle" /\ Succeeded
                 /\ articles[h].createdAt = 0
                 /\ \E p \in PubArgs : autoVerify(p) /\ submitArticle(Deployer, h, "", p)]_vars

\* an open article meets quorum and window right after the owner changed the
\* parameters, and stays open
C16_Witness ==
    \E h \in PairHashes :
        /\ Qualifies(h)
        /\ last = Receipt("setVotingParams", "", <<>>)

\* an open article meets quorum and window right after a vote finalized the
\* other article
C16_WitnessOtherArticle ==
    \E h, g \in PairHashes :
        /\ h # g
        /\ Qualifies(h)
        /\ last.op = "vote" /\ last.err = "" /\ Len(last.logs) = 2
        /\ last.logs[1].hash = g
        /\ articles[g].finalized
\* article h is open and every account has voted on it
Exhausted(h) ==
    /\ articles[h].createdAt # 0
    /\ ~articles[h].finalized
    /\ \A v \in Callers : hasVoted[h][v]

\* C17: finalization is not guaranteed.  An open article on which every
\* account has voted stays UnderReview and not finalized in every later
\* step, whatever is sent and however much time passes, and such a state is
\* reachable with the quorum met and the window elapsed (C17_Witness); so
\* there are behaviours, with time advancing, in which a submitted article is
\* never finalized.
C17_NoForcedFinalization ==
    [][\A h \in Hashes :
          Exhausted(h) =>
              /\ Exhausted(h)'
              /\ articles'[h].status = "UnderReview"
              /\ articles'[h].yesVotes = articles[h].yesVotes
              /\ articles'[h].noVotes = articles[h].noVotes]_vars

\* an article of an untrusted publisher on which every account voted before
\* the window elapsed: the quorum is met, the window has elapsed, time is at
\* the horizon, and the article is UnderReview
C17_Witness ==
    \E h \in Hashes :
        /\ Exhausted(h)
        /\ ~isTrusted[articles[h].publisher]
        /\ articles[h].status = "UnderReview"
        /\ totalVotes(articles[h]) >= minVotes
        /\ now >= articles[h].createdAt + votingPeriod
        /\ now = Horizon
\* C18: a setVotingParams(p, m) sent by the owner succeeds and sets
\* votingPeriod to p and minVotes to m, touching no article; the two
\* parameters change in no other step, so the finalization check of every
\* later vote reads the values set last; and an article finalized before
\* keeps finalized and status, also when it does not meet the new quorum or
\* window.
C18_ParamsTakeEffect ==
    [][/\ (last'.op = "setVotingParams") =>
             (\A s \in Senders, p \in PeriodArgs, m \in MinVotesArgs :
                 (setVotingParams(s, p, m) /\ s = newsOwner) =>
                     (/\ Succeeded
                      /\ votingPeriod' = p /\ minVotes' = m
                      /\ articles' = articles /\ hasVoted' = hasVoted))
       /\ (votingPeriod' # votingPeriod \/ minVotes' # minVotes) =>
             (last'.op = "setVotingParams" /\ Succeeded)
       /\ (last'.op = "vote" /\ Succeeded) =>
             (\A s \in Senders, h \in Hashes, b \in BOOLEAN :
                 vote(s, h, b) =>
                     (articles'[h].finalized <=>
                          /\ totalVotes(articles'[h]) >= minVotes
                          /\ now >= articles'[h].createdAt + votingPeriod))]_vars

\* the owner has just raised the quorum above the votes of an article that
\* a vote had finalized, and the article is still finalized
C18_Witness ==
    \E h \in Hashes :
        /\ last = Receipt("setVotingParams", "", <<>>)
        /\ articles[h].finalized
        /\ articles[h].status # "UnderReview"
        /\ 0 < totalVotes(articles[h])
        /\ totalVotes(articles[h]) < minVotes

\* a finalized article whose window, under the period now in force, has not
\* elapsed: the owner lengthened the period after a vote had finalized it
C18_WitnessWindow ==
    \E h \in Hashes :
        /\ last = Receipt("setVotingParams", "", <<>>)
        /\ articles[h].finalized
        /\ 0 < totalVotes(articles[h])
        /\ now < articles[h].createdAt + votingPeriod
\* The event log of the chain is the concatenation of the logs of the
\* receipts.  A step adds the events of the receipt it leaves; a step that
\* leaves the receipt as it was (a mined block, or a call repeating the
\* previous receipt, which then carries no event) adds none.
NewLogs == IF last' = last THEN <<>> ELSE last'.logs
ArticleEvents(logs, name, h) ==
    Cardinality({i \in 1..Len(logs) : logs[i].name = name /\ logs[i].hash = h})
PublisherEvents(logs, name, p) ==
    Cardinality({i \in 1..Len(logs) : logs[i].name = name /\ logs[i].addr = p})

\* C19: for every article exactly one of Submitted and PublisherAutoVerified
\* is ever emitted, never both and never neither: the step that creates h
\* (createdAt leaves 0, which happens once since createdAt never changes
\* again) emits exactly one of the two, every other step emits neither, and
\* the one emitted is PublisherAutoVerified exactly when the submission
\* finalized the article as VerifiedTrue.
C19_OneSubmissionEvent ==
    [][\A h \in Hashes :
          LET submitted == ArticleEvents(NewLogs, "Submitted", h)
              verified == ArticleEvents(NewLogs, "PublisherAutoVerified", h)
          IN  /\ articles[h].createdAt # 0 =>
                    articles'[h].createdAt = articles[h].createdAt
              /\ IF articles[h].createdAt = 0 /\ articles'[h].createdAt # 0
                 THEN /\ submitted + verified = 1
                      /\ verified = 1 <=> (/\ articles'[h].finalized
                                            /\ articles'[h].status = "VerifiedTrue")
                      /\ submitted = 1 <=> (/\ ~articles'[h].finalized
                                             /\ articles'[h].status = "UnderReview")
                 ELSE submitted = 0 /\ verified = 0]_vars

\* an article has just been created by an auto-verified submission
C19_Witness ==
    \E h \in Hashes :
        /\ last.op = "submitArticle" /\ last.err = ""
        /\ ArticleEvents(last.logs, "PublisherAutoVerified", h) = 1
        /\ ArticleEvents(last.logs, "Submitted", h) = 0
        /\ articles[h].finalized

\* an article has just been created by a plain submission
C19_WitnessSubmitted ==
    \E h \in Hashes :
        /\ last.op = "submitArticle" /\ last.err = ""
        /\ ArticleEvents(last.logs, "Submitted", h) = 1
        /\ ArticleEvents(last.logs, "PublisherAutoVerified", h) = 0
        /\ ~articles[h].finalized

\* C20: notifications are emitted exactly once per successful transition.
\* Finalized is emitted for h in the step in which finalized turns true, once,
\* and in no other step, and finalized never turns false again, so the
\* number of Finalized events of h is 1 if h is finalized and 0 otherwise.
\* Every step emits as many Voted events for h as it adds to
\* yesVotes + noVotes, which start at 0 and never decrease.  Every successful
\* addPublisher(p) emits one PublisherAdded(p), every successful
\* removePublisher(p) one PublisherRemoved(p), and no other step emits them.
C20_OneEventPerTransition ==
    [][/\ \A h \in Hashes :
             /\ articles[h].finalized => articles'[h].finalized
             /\ ArticleEvents(NewLogs, "Finalized", h) =
                    (IF ~articles[h].finalized /\ articles'[h].finalized THEN 1 ELSE 0)
             /\ ArticleEvents(NewLogs, "Voted", h) =
                    totalVotes(articles'[h]) - totalVotes(articles[h])
       /\ \A p \in Address :
             /\ PublisherEvents(NewLogs, "PublisherAdded", p) =
                    (IF /\ last'.op = "addPublisher" /\ Succeeded
                        /\ \E s \in Senders : addPublisher(s, p)
                     THEN 1 ELSE 0)
             /\ PublisherEvents(NewLogs, "PublisherRemoved", p) =
                    (IF /\ last'.op = "removePublisher" /\ Succeeded
                        /\ \E s \in Senders : removePublisher(s, p)
                     THEN 1 ELSE 0)]_vars

\* a vote has just finalized an article that holds two votes: its receipt
\* carries one Voted and one Finalized event
C20_Witness ==
    \E h \in Hashes :
        /\ last.op = "vote" /\ last.err = ""
        /\ articles[h].finalized
        /\ totalVotes(articles[h]) = 2
        /\ ArticleEvents(last.logs, "Voted", h) = 1
        /\ ArticleEvents(last.logs, "Finalized", h) = 1

\* a publisher has just been removed after having been added
C20_WitnessRemoved ==
    \E p \in Address :
        /\ last = Receipt("removePublisher", "", <<PublisherRemoved(p)>>)
        /\ ~isTrusted[p]
\* C21: the news registry never writes the publisher registry.  submitArticle,
\* vote and setVotingParams leave the trusted map and the publisher
\* registry's owner as they were, and isTrusted[a] changes only in a
\* successful addPublisher(a) or removePublisher(a) sent by that owner.
C21_TrustOnlyByOwner ==
    [][/\ (last'.op = "submitArticle") =>
             (\A s \in Senders, h \in Hashes, u \in Uris, p \in PubArgs :
                 submitArticle(s, h, u, p) => UNCHANGED pubState)
       /\ (last'.op = "vote") =>
             (\A s \in Senders, h \in Hashes, b \in BOOLEAN :
                 vote(s, h, b) => UNCHANGED pubState)
       /\ (last'.op = "setVotingParams") =>
             (\A s \in Senders, p \in PeriodArgs, m \in MinVotesArgs :
                 setVotingParams(s, p, m) => UNCHANGED pubState)
       /\ \A a \in Address :
             isTrusted'[a] # isTrusted[a] =>
                 (/\ Succeeded
                  /\ pubOwner \in Senders
                  /\ IF isTrusted'[a] THEN addPublisher(pubOwner, a)
                                      ELSE removePublisher(pubOwner, a))]_vars

\* a submission has just been auto-verified against a trusted map that holds
\* the publisher the owner added, and nothing else
C21_Witness ==
    /\ last.op = "submitArticle" /\ last.err = ""
    /\ \E a \in Address : isTrusted[a] /\ \A b \in Address \ {a} : ~isTrusted[b]
    /\ \E h \in Hashes : articles[h].finalized /\ isTrusted[articles[h].publisher]

\* a vote has just succeeded while a publisher is trusted
C21_WitnessVote ==
    /\ last.op = "vote" /\ last.err = ""
    /\ \E a \in Address : isTrusted[a]

\* the record of an article that was never submitted
Missing(h) ==
    /\ articles[h] = Article
    /\ \A v \in Address : ~hasVoted[h][v]
    /\ getArticle(h) = <<0, "", 0, 0, 0, "UnderReview", 0, 0, FALSE>>

\* C22: createdAt = 0 is an exact existence test.  createdAt of h leaves 0 in
\* the step of a successful submitArticle(h, ...), in every such step, and in
\* no other; it never returns to 0; and while it is 0 the record is the
\* all-default one (UnderReview, no votes, not finalized, no hasVoted entry),
\* which getArticle(h) returns.
C22_CreatedAtIsExistence ==
    [][\A h \in PairHashes :
          /\ articles[h].createdAt = 0 => Missing(h)
          /\ articles'[h].createdAt = 0 => Missing(h)'
          /\ articles[h].createdAt # 0 => articles'[h].createdAt # 0
          /\ (articles[h].createdAt = 0 /\ articles'[h].createdAt # 0) =>
                 (/\ last'.op = "submitArticle" /\ Succeeded
                  /\ \E p \in PubArgs : submitArticle(Deployer, h, "", p))
          /\ (last'.op = "submitArticle" /\ Succeeded) =>
                 (\A p \in PubArgs :
                     submitArticle(Deployer, h, "", p) =>
                         (articles[h].createdAt = 0 /\ articles'[h].createdAt = now))]_vars

\* one article exists and has been voted on; a vote on the other one has
\* just been rejected and its record is the default one
C22_Witness ==
    \E h, g \in PairHashes :
        /\ articles[h].createdAt # 0 /\ totalVotes(articles[h]) > 0
        /\ articles[g].createdAt = 0 /\ Missing(g)
        /\ last = Receipt("vote", "Not submitted", <<>>)
\* the five fields written once, by the creating submitArticle
Identity(a) == <<a.contentHash, a.uri, a.publisher, a.submitter, a.createdAt>>

\* C23: the submitArticle(h, uri, p) that creates an article stores h as
\* contentHash, uri, p, the caller as submitter and the block time as
\* createdAt; from then on none of the five changes in any step (votes,
\* finalization, rejected duplicate submissions, owner operations, blocks).
C23_IdentityIsImmutable ==
    [][\A h \in Hashes :
          /\ articles[h].createdAt # 0 =>
                (/\ Identity(articles'[h]) = Identity(articles[h])
                 /\ articles[h].contentHash = h)
          /\ (last'.op = "submitArticle" /\ Succeeded) =>
                (\A s \in Senders, u \in Uris, p \in PubArgs :
                    submitArticle(s, h, u, p) =>
                        Identity(articles'[h]) = <<h, u, p, s, now>>)]_vars

\* an article submitted by account 2 with a uri, since voted on and
\* finalized, right after a duplicate submission by another account was
\* rejected
C23_Witness ==
    \E h \in Hashes :
        /\ last = Receipt("submitArticle", "Already submitted", <<>>)
        /\ articles[h].submitter = 2 /\ articles[h].uri = "ipfs"
        /\ articles[h].contentHash = h
        /\ articles[h].createdAt < now
        /\ articles[h].finalized /\ totalVotes(articles[h]) > 0

\* C24: yesVotes and noVotes never decrease.  A successful vote(h, support)
\* adds exactly 1 to yesVotes if support and to noVotes otherwise, leaves the
\* other counter alone and sets hasVoted[h][caller]; no other step changes a
\* counter.
C24_CountersCountVotes ==
    [][\A h \in Hashes :
          /\ articles'[h].yesVotes >= articles[h].yesVotes
          /\ articles'[h].noVotes >= articles[h].noVotes
          /\ (last'.op = "vote" /\ Succeeded) =>
                (\A s \in Senders, b \in BOOLEAN :
                    vote(s, h, b) =>
                        (/\ articles'[h].yesVotes =
                               articles[h].yesVotes + (IF b THEN 1 ELSE 0)
                         /\ articles'[h].noVotes =
                               articles[h].noVotes + (IF b THEN 0 ELSE 1)
                         /\ ~hasVoted[h][s] /\ hasVoted'[h][s]))
          /\ totalVotes(articles'[h]) # totalVotes(articles[h]) =>
                (/\ last'.op = "vote" /\ Succeeded
                 /\ \E s \in Senders, b \in BOOLEAN : vote(s, h, b))]_vars

\* a yes vote has just been counted on top of a no vote
C24_Witness ==
    \E h \in Hashes, s \in Senders :
        /\ last = Receipt("vote", "", <<Voted(h, s, TRUE)>>)
        /\ articles[h].yesVotes = 1 /\ articles[h].noVotes = 1
        /\ hasVoted[h][s]
Terminal == Status \ {"UnderReview"}

\* C25: in every state and for every article, status is UnderReview exactly
\* when finalized is false.  Every record starts UnderReview; status changes
\* only out of UnderReview, to VerifiedTrue, MarkedFake or Disputed, in the
\* step that sets finalized; a submission that is not auto-verified leaves
\* the new article UnderReview; and a finalized article keeps its status.
C25_StatusMatchesFinalized ==
    [][\A h \in Hashes :
          /\ articles[h].status = "UnderReview" <=> ~articles[h].finalized
          /\ articles'[h].status = "UnderReview" <=> ~articles'[h].finalized
          /\ articles[h].createdAt = 0 => articles[h].status = "UnderReview"
          /\ articles'[h].status # articles[h].status =>
                (/\ articles[h].status = "UnderReview"
                 /\ articles'[h].status \in Terminal
                 /\ ~articles[h].finalized /\ articles'[h].finalized)
          /\ (last'.op = "submitArticle" /\ Succeeded) =>
                (\A s \in Senders, u \in Uris, p \in PubArgs :
                    (submitArticle(s, h, u, p) /\ ~autoVerify(p)) =>
                        (articles'[h].status = "UnderReview" /\ ~articles'[h].finalized))]_vars

\* a vote has just been rejected on an article finalized as MarkedFake
C25_Witness ==
    \E h \in Hashes :
        /\ last = Receipt("vote", "Already finalized", <<>>)
        /\ articles[h].status = "MarkedFake" /\ articles[h].finalized

\* an article finalized as Disputed by a tied vote
C25_WitnessDisputed ==
    \E h \in Hashes :
        /\ articles[h].status = "Disputed" /\ articles[h].finalized
        /\ articles[h].yesVotes = articles[h].noVotes

\* C26: a successful submitArticle whose claimed publisher is address(0), or
\* an address not trusted at that moment, creates the article UnderReview
\* and not finalized and emits Submitted only; address(0) does not
\* auto-verify even when the owner has added it to the trusted map.
C26_NoAutoVerify ==
    [][(last'.op = "submitArticle" /\ Succeeded) =>
          (\A s \in Senders, h \in Hashes, u \in Uris, p \in PubArgs :
              (submitArticle(s, h, u, p) /\ (p = 0 \/ ~isTrusted[p])) =>
                  (/\ articles'[h].status = "UnderReview"
                   /\ ~articles'[h].finalized
                   /\ articles'[h].createdAt = now
                   /\ last'.logs = <<Submitted(h, s, u)>>))]_vars

\* address(0) is trusted, and an article claiming it as publisher has just
\* been created as a plain submission
C26_Witness ==
    \E h \in Hashes :
        /\ isTrusted[0]
        /\ last.op = "submitArticle" /\ last.err = ""
        /\ articles[h].publisher = 0
        /\ articles[h].status = "UnderReview" /\ ~articles[h].finalized

\* an article claiming a publisher that is not trusted has just been created
C26_WitnessUntrusted ==
    \E h \in Hashes :
        /\ articles[h].publisher # 0 /\ ~isTrusted[articles[h].publisher]
        /\ last.op = "submitArticle" /\ last.err = ""
        /\ ~articles[h].finalized
\* C27: a vote fails only for the reasons of the error taxonomy: whatever
\* votingPeriod and minVotes are, vote(h, support) on an existing article that
\* is not finalized, by a caller who has not voted on h, succeeds.
C27_VoteSucceeds ==
    [][(last'.op = "vote") =>
          (\A s \in Senders, h \in Hashes, b \in BOOLEAN :
              (/\ vote(s, h, b)
               /\ articles[h].createdAt # 0
               /\ ~articles[h].finalized
               /\ ~hasVoted[h][s]) => Succeeded)]_vars

\* C28: the owner of each contract is the deployer, in every state, and so
\* never address(0); no addPublisher, removePublisher, submitArticle, vote or
\* setVotingParams, accepted or rejected, changes it.
C28_OwnerIsDeployer ==
    /\ pubOwner = Deployer /\ pubOwner # 0
    /\ newsOwner = Deployer /\ newsOwner # 0

\* the owner has added address(0) as a publisher, and since then a call of
\* another account was rejected for not being the owner
C28_Witness ==
    /\ isTrusted[0]
    /\ last.err = "OwnableUnauthorizedAccount"
    /\ pubOwner = Deployer /\ newsOwner = Deployer
\* C29: whenever the role shown is publisher or owner, a wallet account is
\* connected and that account is, at that moment, a trusted publisher or
\* the owner of the publisher registry.
C29_RoleRecognizedOnChain ==
    /\ role = "publisher" => (connectedAddress # 0 /\ isTrusted[connectedAddress])
    /\ role = "owner" => (connectedAddress # 0 /\ pubOwner = connectedAddress)
\* the addresses recorded as having voted on h
Voters(h) == {a \in Address : hasVoted[h][a]}

\* C30: in every state and for every article, yesVotes + noVotes is the
\* number of addresses a with hasVoted[h][a].
C30_VotesMatchVoters ==
    \A h \in Hashes : totalVotes(articles[h]) = Cardinality(Voters(h))

\* three accounts have voted on an article, not all the same way
C30_Witness ==
    \E h \in Hashes :
        /\ Cardinality(Voters(h)) = 3
        /\ articles[h].yesVotes > 0 /\ articles[h].noVotes > 0
\* C31: every finalized article has one of two shapes, never both: it was
\* auto-verified (no votes, VerifiedTrue, a non-zero publisher), or it was
\* finalized by a vote (at least one vote, status the plurality verdict of
\* the stored counters).  No article is finalized as Disputed without votes,
\* also when minVotes = 0.
C31_FinalizedShapes ==
    \A h \in Hashes :
        articles[h].finalized =>
            IF totalVotes(articles[h]) = 0
            THEN /\ articles[h].status = "VerifiedTrue"
                 /\ articles[h].publisher # 0
                 /\ articles[h].yesVotes = 0 /\ articles[h].noVotes = 0
            ELSE /\ totalVotes(articles[h]) >= 1
                 /\ articles[h].status =
                        plurality(articles[h].yesVotes, articles[h].noVotes)

\* with minVotes = 0, an article finalized by its first vote
C31_Witness ==
    \E h \in Hashes :
        /\ minVotes = 0
        /\ articles[h].finalized
        /\ totalVotes(articles[h]) = 1
        /\ articles[h].status \in {"VerifiedTrue", "MarkedFake"}

\* with minVotes = 0, an auto-verified article
C31_WitnessAutoVerified ==
    \E h \in Hashes :
        /\ minVotes = 0
        /\ articles[h].finalized /\ totalVotes(articles[h]) = 0
        /\ articles[h].status = "VerifiedTrue" /\ articles[h].publisher # 0

\* C32: rejections are tested in a fixed order.  vote reports "Not submitted"
\* whenever the article is missing, "Already finalized" whenever it exists
\* and is finalized, also for a caller that has voted on it, and "Already
\* voted" only on an open article.  addPublisher and removePublisher sent by
\* a non-owner report the owner error whether or not the address is trusted.
C32_RejectionOrder ==
    [][/\ (last'.op = "vote") =>
             (\A s \in Senders, h \in Hashes, b \in BOOLEAN :
                 vote(s, h, b) =>
                     (/\ articles[h].createdAt = 0 => Reverted("vote", "Not submitted")
                      /\ (articles[h].createdAt # 0 /\ articles[h].finalized) =>
                             Reverted("vote", "Already finalized")
                      /\ last'.err = "Already voted" =>
                             (/\ articles[h].createdAt # 0
                              /\ ~articles[h].finalized
                              /\ hasVoted[h][s])))
       /\ (last'.op = "addPublisher") =>
             (\A s \in Senders, p \in PubArgs :
                 (addPublisher(s, p) /\ s # pubOwner) =>
                     Reverted("addPublisher", "OwnableUnauthorizedAccount"))
       /\ (last'.op = "removePublisher") =>
             (\A s \in Senders, p \in PubArgs :
                 (removePublisher(s, p) /\ s # pubOwner) =>
                     Reverted("removePublisher", "OwnableUnauthorizedAccount"))]_vars

\* a non-owner's addPublisher has just been rejected as unauthorized while
\* every address it could have named is already trusted
C32_Witness ==
    /\ last = Receipt("addPublisher", "OwnableUnauthorizedAccount", <<>>)
    /\ \A p \in PubArgs : isTrusted[p]

\* a vote has just been rejected as "Already finalized" on an article on
\* which every sender had voted
C32_WitnessVote ==
    \E h \in Hashes :
        /\ last = Receipt("vote", "Already finalized", <<>>)
        /\ \A s \in Senders : hasVoted[h][s]

\* C33: trust is sampled at submission only.  A successful addPublisher or
\* removePublisher changes no article: an article auto-verified for a
\* publisher stays finalized and VerifiedTrue when the publisher is removed,
\* and an UnderReview article stays UnderReview and open when its claimed
\* publisher is added.
C33_TrustSampledAtSubmission ==
    [][(last'.op \in {"addPublisher", "removePublisher"}) =>
          (\A s \in Senders, p \in PubArgs :
              (addPublisher(s, p) \/ removePublisher(s, p)) =>
                  (/\ articles' = articles
                   /\ hasVoted' = hasVoted))]_vars

\* the publisher of an auto-verified article has just been removed
C33_Witness ==
    \E h \in Hashes :
        /\ last = Receipt("removePublisher", "", <<PublisherRemoved(articles[h].publisher)>>)
        /\ articles[h].finalized /\ articles[h].status = "VerifiedTrue"
        /\ totalVotes(articles[h]) = 0
        /\ ~isTrusted[articles[h].publisher]

\* the claimed publisher of an open article has just been added
C33_WitnessAdded ==
    \E h \in Hashes :
        /\ last = Receipt("addPublisher", "", <<PublisherAdded(articles[h].publisher)>>)
        /\ articles[h].createdAt # 0 /\ articles[h].publisher # 0
        /\ articles[h].status = "UnderReview" /\ ~articles[h].finalized
        /\ isTrusted[articles[h].publisher]
\* C34: the outcome of a submission depends on the claimed publisher, not
\* on the caller.  Every successful submitArticle(h, uri, P), whoever sent
\* it, leaves the article finalized and VerifiedTrue exactly when P is
\* non-zero and trusted before the call, and UnderReview and open otherwise;
\* whether the call is rejected does not depend on the caller either.
C34_OutcomeIgnoresCaller ==
    [][(last'.op = "submitArticle") =>
          (\A s \in Senders, h \in Hashes, u \in Uris, p \in PubArgs :
              submitArticle(s, h, u, p) =>
                  (/\ Succeeded <=> articles[h].createdAt = 0
                   /\ Succeeded =>
                         (/\ articles'[h].finalized = (p # 0 /\ isTrusted[p])
                          /\ articles'[h].status =
                                IF p # 0 /\ isTrusted[p] THEN "VerifiedTrue"
                                ELSE "UnderReview"
                          /\ articles'[h].publisher = p)))]_vars

\* a caller that is not trusted, naming a trusted publisher other than
\* itself, has just obtained a finalized VerifiedTrue article
C34_Witness ==
    \E h \in Hashes :
        /\ last = Receipt("submitArticle", "",
                          <<PublisherAutoVerified(h), Finalized(h, "VerifiedTrue")>>)
        /\ articles[h].finalized /\ articles[h].status = "VerifiedTrue"
        /\ articles[h].submitter # articles[h].publisher
        /\ ~isTrusted[articles[h].submitter]
        /\ isTrusted[articles[h].publisher]

\* C35: submitArticle(h) and vote(h) change only the record and the vote
\* marks of h: for every other hash the record and the vote marks are
\* unchanged, and votingPeriod and minVotes are unchanged.
C35_OnlyOwnArticle ==
    [][(last'.op \in {"submitArticle", "vote"}) =>
          (\A h \in PairHashes :
              (\/ \E p \in PubArgs : submitArticle(Deployer, h, "", p)
               \/ \E s \in Senders, b \in BOOLEAN : vote(s, h, b)) =>
                  (/\ \A g \in PairHashes \ {h} :
                         /\ articles'[g] = articles[g]
                         /\ hasVoted'[g] = hasVoted[g]
                   /\ votingPeriod' = votingPeriod
                   /\ minVotes' = minVotes))]_vars

\* a vote on one article has just succeeded while another article holds a
\* vote of another sender and none of the caller
C35_Witness ==
    \E h \in PairHashes, s \in Senders, b \in BOOLEAN :
        /\ last.op = "vote" /\ last.err = ""
        /\ last.logs[1] = Voted(h, s, b)
        /\ \E g \in PairHashes \ {h} :
              /\ articles[g].createdAt # 0
              /\ totalVotes(articles[g]) = 1
              /\ ~hasVoted[g][s]

\* a second article has just been submitted while the first holds a vote
C35_WitnessSubmit ==
    \E h \in PairHashes :
        /\ last.op = "submitArticle" /\ last.err = ""
        /\ articles[h].createdAt # 0 /\ totalVotes(articles[h]) = 0
        /\ \E g \in PairHashes \ {h} : totalVotes(articles[g]) >= 1

\* C36: addPublisher and removePublisher are inverse to each other and
\* commute on distinct addresses.  A successful addPublisher(P) is made on an
\* untrusted P, writes isTrusted[P] alone, and removePublisher(P) after it
\* restores the map exactly; symmetrically for removePublisher(P) on a
\* trusted P.  For Q other than P the entry of Q, and with it the outcome of
\* an operation on Q, is unchanged, and the writes on P and on Q give the
\* same map in either order.
C36_AddRemoveInverse ==
    [][(last'.op \in {"addPublisher", "removePublisher"} /\ Succeeded) =>
          (\A p \in PubArgs :
              /\ addPublisher(pubOwner, p) =>
                    (/\ ~isTrusted[p]
                     /\ isTrusted' = trustedAfterAdd(isTrusted, p)
                     /\ removePublisherRevert(pubOwner, p)' = ""
                     /\ trustedAfterRemove(isTrusted', p) = isTrusted)
              /\ removePublisher(pubOwner, p) =>
                    (/\ isTrusted[p]
                     /\ isTrusted' = trustedAfterRemove(isTrusted, p)
                     /\ addPublisherRevert(pubOwner, p)' = ""
                     /\ trustedAfterAdd(isTrusted', p) = isTrusted)
              /\ (addPublisher(pubOwner, p) \/ removePublisher(pubOwner, p)) =>
                    (\A q \in PubArgs \ {p} :
                        /\ isTrusted'[q] = isTrusted[q]
                        /\ addPublisherRevert(pubOwner, q)' = addPublisherRevert(pubOwner, q)
                        /\ removePublisherRevert(pubOwner, q)' = removePublisherRevert(pubOwner, q)
                        /\ trustedAfterAdd(isTrusted', q) =
                              [trustedAfterAdd(isTrusted, q) EXCEPT ![p] = isTrusted'[p]]
                        /\ trustedAfterRemove(isTrusted', q) =
                              [trustedAfterRemove(isTrusted, q) EXCEPT ![p] = isTrusted'[p]]))]_vars

\* a publisher has just been removed while another address is trusted
C36_Witness ==
    \E p \in PubArgs : \E q \in PubArgs \ {p} :
        /\ last = Receipt("removePublisher", "", <<PublisherRemoved(p)>>)
        /\ ~isTrusted[p] /\ isTrusted[q]

\* a publisher has just been added while another address is untrusted
C36_WitnessAdd ==
    \E p \in PubArgs : \E q \in PubArgs \ {p} :
        /\ last = Receipt("addPublisher", "", <<PublisherAdded(p)>>)
        /\ isTrusted[p] /\ ~isTrusted[q]
\* C37: the trusted list that the admin page builds from the PublisherAdded
\* and PublisherRemoved events equals the set of trusted addresses at the
\* ledger position of the load: at one of the blocks between the answers
\* to its first and to its last query.
C37_ListIsTrustedSet ==
    [][loadRemoved =>
          (\E k \in adminLoad.from..Len(ledger) :
              adminLoad'.trustedList = {a \in Address : storageAt(k)[a]})]_vars
====
